---- MODULE Spec2Model ----
(***************************************************************************)
(* The generic resource client of mindhub-client (BaseCrudService): the    *)
(* local mirror `items`, the `currentItem` slot and the `isLoading` busy   *)
(* flag of one wrapper instance, and the five remote operations create,    *)
(* getById, update, delete and getList.                                    *)
(*                                                                         *)
(* Each operation is a method that sets the busy flag and returns a cold   *)
(* observable; the HTTP request is sent when the caller subscribes, and    *)
(* the tap / catchError callbacks run when the response arrives.  Calls    *)
(* are not serialized: several may be outstanding and their responses      *)
(* arrive in any order.                                                    *)
(***************************************************************************)
EXTENDS Integers, Sequences, FiniteSets, TLC

\* Number of operation calls made on the wrapper in one behaviour.
MaxCalls == 2
\* Longest page content the server returns.
MaxPage == 2
\* The clock runs from 0 to MaxTime; a token expires at 1 or at MaxTime.
MaxTime == 2

\* Identifiers and revisions of the items the server can return.
Ids == {1, 2}
Revs == {"a", "b"}
Item == [id : Ids, rev : Revs]
\* The empty currentItem slot (null).
NoItem == [id |-> 0, rev |-> "null"]
\* content of a PaginatedResponse
Pages == UNION {[1..n -> Item] : n \in 0..MaxPage}
\* HTTP statuses of a failed request
Errors == {404, 500}
NoError == 0

Ops == {"create", "getById", "update", "delete", "getList"}

VARIABLES
    items,        \* _items: the local mirror
    currentItem,  \* _currentItem: an Item or NoItem
    isLoading,    \* _isLoading: the busy flag
    calls,        \* outstanding calls: call number -> [op, id, stage, authRequests]
    issued,       \* number of calls made so far
    last,         \* the last thing that happened, as the caller observes it
    maxDone,      \* highest call number whose success callback has run
    overlapped,   \* TRUE once a call was made while another was outstanding
    cancelled     \* TRUE once a call was unsubscribed before it settled

vars == <<items, currentItem, isLoading, calls, issued, last, maxDone,
          overlapped, cancelled>>

\* The concrete wrappers side by side (PostService, CommentService, ...), each
\* an instance of BaseCrudService with its own signals.
VARIABLES
    svc,          \* wrapper -> [items, currentItem, isLoading, pending]
    svcIssued,    \* number of calls made on the wrappers so far
    svcLast       \* the last operation step, the wrapper it ran on, the state before

svcVars == <<svc, svcIssued, svcLast>>

\* ReactionService: the three signals it inherits and its calls in flight.
VARIABLES
    rItems,        \* _items of the ReactionService
    rCurrentItem,  \* _currentItem of the ReactionService
    rIsLoading,    \* _isLoading of the ReactionService
    rCalls,        \* subscribed calls not yet answered: number -> [op, postId]
    rIssued,       \* number of calls made so far
    rLast          \* the last step and the signals before it

rVars == <<rItems, rCurrentItem, rIsLoading, rCalls, rIssued, rLast>>

\* The session: AuthService, the browser's localStorage, the router, the clock.
VARIABLES
    storedToken,      \* localStorage 'token'
    storedUser,       \* localStorage 'user', a JSON text
    currentUser,      \* AuthService._currentUser
    isAuthenticated,  \* AuthService._isAuthenticated
    url,              \* where the router last navigated to
    now,              \* Date.now() / 1000
    authRequests,         \* authRequests of the AuthService in flight: number -> [op, headers]
    authIssued,       \* number of authRequests sent so far
    authLast,         \* the last step and the session before it
    loggedOut         \* logout() has run and no login has succeeded since

session == <<storedToken, storedUser, currentUser, isAuthenticated>>
authVars == <<session, url, now, authRequests, authIssued, authLast, loggedOut>>

\* FeedComponent: its consolidated state, its filter and its feed requests.
VARIABLES
    state,             \* _state: posts, loading, loadingMore, error, hasMore, currentPage
    statusFilter,      \* _statusFilter
    filteredAllPosts,  \* _filteredAllPosts
    feedCalls,         \* getPersonalFeed requests in flight: number -> [op, page, size]
    feedIssued,        \* number of getPersonalFeed requests sent so far
    feedLast           \* the last step and the state before it

feedVars == <<state, statusFilter, filteredAllPosts, feedCalls, feedIssued, feedLast>>

\* UserManagementComponent: the search box, its debounce and its requests.
VARIABLES
    found,          \* users, totalPages, totalElements and searchQuery of _state
    debounced,      \* the value debounceTime holds back, or nothing
    emitted,        \* the value distinctUntilChanged let through last
    searchCalls,    \* search requests sent: number -> [query, subscribed]
    searchIssued,   \* number of search requests sent so far
    searchLast      \* the last step, the result before it, the request shown

searchVars == <<found, debounced, emitted, searchCalls, searchIssued, searchLast>>

\* ChatbotComponent: its state and its requests.
VARIABLES
    chat,        \* _state: messages, currentInput, isTyping
    chatCalls,   \* requests in flight: number -> [op, input]
    chatIssued,  \* number of requests sent so far
    chatLast     \* the last step and the state before it

chatVars == <<chat, chatCalls, chatIssued, chatLast>>

\* ProfileComponent: its state, the session in local storage and its requests.
VARIABLES
    profile,     \* _state (isLoading, errorMessage, showDeleteConfirm), the
                 \* user's role and whether the page was left
    pStorage,    \* local storage: is the token there, is the user there
    pCalls,      \* requests in flight: number -> [op, count]
    pIssued,     \* number of requests sent so far
    pLast        \* the last step and the state before it

profileVars == <<profile, pStorage, pCalls, pIssued, pLast>>

\* One service with the server behind it.
VARIABLES
    store,        \* the server's items, newest first
    mirrorItems,  \* _items of the service
    sCalls,       \* requests: number -> [op, page, stage, item, content]
    sIssued,      \* number of requests sent so far
    sLast         \* the last step

servedVars == <<store, mirrorItems, sCalls, sIssued, sLast>>

\* FollowService: its mirror and its requests.
VARIABLES
    follow,    \* [items, currentItem, isLoading] of the FollowService
    fCalls,    \* requests in flight: number -> [op, id]
    fIssued,   \* number of requests sent so far
    fLast      \* the last step and the items before it

followVars == <<follow, fCalls, fIssued, fLast>>

\* What the operations of each part leave alone: the state of the other parts.
others == <<svcVars, rVars, authVars, feedVars, searchVars, chatVars, profileVars, servedVars, followVars>>
svcOthers == <<vars, rVars, authVars, feedVars, searchVars, chatVars, profileVars, servedVars, followVars>>
rOthers == <<vars, svcVars, authVars, feedVars, searchVars, chatVars, profileVars, servedVars, followVars>>
authOthers == <<vars, svcVars, rVars, feedVars, searchVars, chatVars, profileVars, servedVars, followVars>>
feedOthers == <<vars, svcVars, rVars, authVars, searchVars, chatVars, profileVars, servedVars, followVars>>
searchOthers == <<vars, svcVars, rVars, authVars, feedVars, chatVars, profileVars, servedVars, followVars>>
chatOthers == <<vars, svcVars, rVars, authVars, feedVars, searchVars, profileVars, servedVars, followVars>>
profileOthers == <<vars, svcVars, rVars, authVars, feedVars, searchVars, chatVars, servedVars, followVars>>
servedOthers == <<vars, svcVars, rVars, authVars, feedVars, searchVars, chatVars, profileVars, followVars>>
followOthers == <<vars, svcVars, rVars, authVars, feedVars, searchVars, chatVars, profileVars, servedVars>>
allVars == <<vars, svcVars, rVars, authVars, feedVars, searchVars, chatVars, profileVars, servedVars, followVars>>

\* getItemId as every concrete wrapper implements it: return item.id
getItemId(item) == item.id

\* What the transport hands to a callback, or what a callback hands on.
Value(item, page, error) == [item |-> item, page |-> page, error |-> error]
NoValue == Value(NoItem, <<>>, NoError)

\* kind: what happened; seq, op, id: the call it happened to; resp: what the
\* transport delivered; out: what the subscriber received; busy: the flag as
\* the subscriber saw it; authRequests: authRequests sent for the call so far;
\* changed: whether the step changed the mirror and the slot; had: the
\* length of the mirror before the step.
Event(kind, c, op, id, resp, out, busy, requests) ==
    [kind |-> kind, seq |-> c, op |-> op, id |-> id, resp |-> resp, out |-> out,
     busy |-> busy, requests |-> requests,
     changed |-> [items |-> items' # items, current |-> currentItem' # currentItem],
     had |-> Len(items)]

Remove(c) == [d \in DOMAIN calls \ {c} |-> calls[d]]

\* Reactions carry the post they belong to; the answer to reactToPost is a
\* reaction or, when the server removed one, a message without an id.
PostIds == {1, 2}
Reaction == [id : Ids, postId : PostIds]
Message == [success |-> TRUE]
NoReaction == [id |-> 0, postId |-> 0]
rSignals == [items |-> rItems, currentItem |-> rCurrentItem, isLoading |-> rIsLoading]
rInit ==
    /\ rItems = <<>>
    /\ rCurrentItem = NoReaction
    /\ rIsLoading = FALSE
    /\ rCalls = <<>>
    /\ rIssued = 0
    /\ rLast = [kind |-> "init", op |-> "none", postId |-> 0, resp |-> Message,
                before |-> [items |-> <<>>, currentItem |-> NoReaction,
                            isLoading |-> FALSE]]

\* Tokens, users and the texts localStorage holds for them.  A token is absent,
\* a JWT whose payload carries exp, or a text that does not decode.
NoToken == [kind |-> "null", exp |-> 0]
Malformed == [kind |-> "malformed", exp |-> 0]
Jwt == [kind : {"jwt"}, exp : {1, MaxTime}]
Tokens == Jwt \cup {Malformed}
Roles == {"ADMIN", "USER"}
User == [role : [name : Roles]]
NoUser == [role |-> [name |-> "null"]]
Absent == [text |-> "null", of |-> NoUser]
Stringify(u) == [text |-> "json", of |-> u]
Parse(text) == text.of
Routes == {"/", "/auth/login", "/dashboard", "/unauthorized", "/admin"}
Statuses == {401, 403, 500, 418}
NoHttpError == [status |-> 0, url |-> "none"]
sessionNow ==
    [token |-> storedToken, user |-> storedUser, currentUser |-> currentUser,
     isAuthenticated |-> isAuthenticated]
authInit ==
    /\ storedToken = NoToken
    /\ storedUser = Absent
    /\ currentUser = NoUser
    /\ isAuthenticated = FALSE
    /\ url = "/"
    /\ now = 0
    /\ authRequests = <<>>
    /\ authIssued = 0
    /\ loggedOut = FALSE
    /\ authLast = [kind |-> "init", op |-> "none", error |-> NoHttpError,
                   thrown |-> NoHttpError, allow |-> FALSE, navigate |-> "none",
                   before |-> [token |-> NoToken, user |-> Absent,
                               currentUser |-> NoUser, isAuthenticated |-> FALSE]]

\* The feed: page sizes, posts and the pages the server answers with.
PAGE_SIZE == 10
FILTER_LOAD_SIZE == 50
Filters == {"ALL", "PUBLIC"}
Post(i) == [id |-> i, privacyType |-> IF i % 2 = 0 THEN "PUBLIC" ELSE "PRIVATE"]
\* The n first posts of a page.
Content(page, n) == [i \in 1..n |-> Post(page * PAGE_SIZE + i)]
ContentSizes == {0, 2, 24}
TotalPages == 0..MaxPage + 1
NoFeedError == "null"
NoResponse == [content |-> <<>>, totalPages |-> 0]
feedInit ==
    /\ state = [posts |-> <<>>, loading |-> FALSE, loadingMore |-> FALSE,
                error |-> NoFeedError, hasMore |-> TRUE, currentPage |-> 0]
    /\ statusFilter = "ALL"
    /\ filteredAllPosts = <<>>
    /\ feedCalls = <<>>
    /\ feedIssued = 0
    /\ feedLast = [kind |-> "init", op |-> "none", page |-> 0, sent |-> FALSE,
                   response |-> NoResponse,
                   before |-> [posts |-> <<>>, loading |-> FALSE, loadingMore |-> FALSE,
                               error |-> NoFeedError, hasMore |-> TRUE, currentPage |-> 0]]

\* The search box: what can be typed, and String.prototype.trim on it.
Typed == {"", " ", "ana", "ana ", "bo"}
Trim(query) ==
    CASE query = " " -> ""
      [] query = "ana " -> "ana"
      [] OTHER -> query
Nothing == "nothing"
NoResult == [users |-> <<>>, totalPages |-> 0, totalElements |-> 0]
\* The pages of users the server answers a search with.
Results ==
    {[users |-> us, totalPages |-> IF us = <<>> THEN 0 ELSE 1, totalElements |-> Len(us)] :
        us \in {<<>>, <<"ana">>, <<"bo">>, <<"ana", "bo">>}}
searchInit ==
    /\ found = [users |-> <<>>, totalPages |-> 0, totalElements |-> 0,
                searchQuery |-> "", currentPage |-> 0, loading |-> FALSE,
                error |-> "null"]
    /\ debounced = Nothing
    /\ emitted = Nothing
    /\ searchCalls = <<>>
    /\ searchIssued = 0
    /\ searchLast = [kind |-> "init", seq |-> 0, shown |-> 0, shownBefore |-> 0,
                     before |-> NoResult]

\* The chat: what can stand in the input box, and the messages.
Inputs == {"", " ", "hola", " hola "}
TrimInput(text) ==
    CASE text = " " -> ""
      [] text = " hola " -> "hola"
      [] OTHER -> text
createMessage(content, type) == [content |-> content, messageType |-> type]
ErrorNotice ==
    createMessage("Lo siento, hubo un error al procesar tu mensaje. Intentalo de nuevo.",
                  "CHATBOT")
Welcome == createMessage("Hola", "CHATBOT")
Answers == {createMessage("respuesta", "CHATBOT")}
chatInit ==
    /\ chat = [messages |-> <<>>, currentInput |-> "", isTyping |-> FALSE]
    /\ chatCalls = <<>>
    /\ chatIssued = 0
    /\ chatLast = [kind |-> "init", sent |-> FALSE, reset |-> FALSE,
                   before |-> [messages |-> <<>>, currentInput |-> "",
                               isTyping |-> FALSE]]

\* The profile page: roles, the counts the server can answer, the messages.
ProfileRoles == {"ADMIN", "USER"}
Counts == {0, 1, 2, 3}
LastAdmin == "No puedes eliminar tu cuenta porque eres el ultimo administrador."
DeleteFailed == "Error al eliminar la cuenta"
LoadFailed == "Error al cargar el perfil del usuario"
NoMessage == "null"
profileInit ==
    /\ profile = [isLoading |-> FALSE, errorMessage |-> NoMessage,
                  showDeleteConfirm |-> FALSE, role |-> "none", left |-> FALSE]
    /\ pStorage = [token |-> TRUE, user |-> TRUE]
    /\ pCalls = <<>>
    /\ pIssued = 0
    /\ pLast = [kind |-> "init", count |-> 0, issuedBefore |-> 0,
                before |-> [isLoading |-> FALSE, errorMessage |-> NoMessage,
                            showDeleteConfirm |-> FALSE, role |-> "none",
                            left |-> FALSE]]

\* A service with its server: nothing stored, nothing mirrored, nothing sent.
servedInit ==
    /\ store = <<>>
    /\ mirrorItems = <<>>
    /\ sCalls = <<>>
    /\ sIssued = 0
    /\ sLast = [kind |-> "init", seq |-> 0]

\* Follow relationships: the relationship has an identifier of its own and
\* names the user followed.  The signed-in user follows a user at most once.
FollowResponse == [id : Ids, followedId : Ids]
FollowPages ==
    {content \in UNION {[1..n -> FollowResponse] : n \in 0..MaxPage} :
        \A i, j \in 1..Len(content) :
            (content[i].id = content[j].id
             \/ content[i].followedId = content[j].followedId) => i = j}
followInit ==
    /\ follow = [items |-> <<>>, currentItem |-> NoItem, isLoading |-> FALSE]
    /\ fCalls = <<>>
    /\ fIssued = 0
    /\ fLast = [kind |-> "init", userId |-> 0, before |-> <<>>]

\* The concrete wrappers and the state each is constructed with:
\* signal<T[]>([]), signal<T | null>(null), signal<boolean>(false).
Wrappers == {"PostService", "CommentService", "ReportService"}
NoCall == [op |-> "none", id |-> 0]
Fresh == [items |-> <<>>, currentItem |-> NoItem, isLoading |-> FALSE,
          pending |-> NoCall]
svcInit ==
    /\ svc = [w \in Wrappers |-> Fresh]
    /\ svcIssued = 0
    /\ svcLast = [kind |-> "init", w |-> "none", before |-> [w \in Wrappers |-> Fresh]]

Pending(c, op) ==
    /\ c \in DOMAIN calls
    /\ calls[c].op = op
    /\ calls[c].stage = "pending"

Max(a, b) == IF a >= b THEN a ELSE b

Init ==
    /\ items = <<>>
    /\ currentItem = NoItem
    /\ isLoading = FALSE
    /\ calls = <<>>
    /\ issued = 0
    /\ last = [kind |-> "init", seq |-> 0, op |-> "none", id |-> 0, resp |-> NoValue,
               out |-> NoValue, busy |-> FALSE, requests |-> 0,
               changed |-> [items |-> FALSE, current |-> FALSE], had |-> 0]
    /\ maxDone = 0
    /\ overlapped = FALSE
    /\ cancelled = FALSE
    /\ svcInit
    /\ rInit
    /\ authInit
    /\ feedInit
    /\ searchInit
    /\ chatInit
    /\ profileInit
    /\ servedInit
    /\ followInit

\* The synchronous part of every operation: this._isLoading.set(true), then
\* the observable is built and returned without being subscribed.
Issue(op, id) ==
    /\ UNCHANGED others
    /\ issued < MaxCalls
    /\ isLoading' = TRUE
    /\ issued' = issued + 1
    /\ calls' = calls @@ ((issued + 1) :>
                   [op |-> op, id |-> id, stage |-> "cold", requests |-> 0])
    /\ overlapped' = (overlapped \/ DOMAIN calls # {})
    /\ UNCHANGED <<items, currentItem, maxDone, cancelled>>
    /\ last' = Event("call", issued + 1, op, id, NoValue, NoValue, TRUE, 0)

create == Issue("create", 0)
getById(id) == Issue("getById", id)
update(id) == Issue("update", id)
delete(id) == Issue("delete", id)
getList == Issue("getList", 0)

\* The caller subscribes to the returned observable: HttpClient sends the
\* request.
Subscribe(c) ==
    /\ UNCHANGED others
    /\ c \in DOMAIN calls
    /\ calls[c].stage = "cold"
    /\ calls' = [calls EXCEPT ![c].stage = "pending", ![c].requests = @ + 1]
    /\ UNCHANGED <<items, currentItem, isLoading, issued, maxDone, overlapped,
                   cancelled>>
    /\ last' = Event("subscribe", c, calls[c].op, calls[c].id, NoValue, NoValue,
                     isLoading, calls[c].requests + 1)

\* Unsubscribe leaving the request and its callbacks in place.
Unsubscribe_KeepsRequest(c) ==
    /\ UNCHANGED others
    /\ c \in DOMAIN calls
    /\ calls[c].stage = "pending"
    /\ cancelled = FALSE
    /\ calls' = calls
    /\ cancelled' = TRUE
    /\ UNCHANGED <<items, currentItem, isLoading, issued, maxDone, overlapped>>
    /\ last' = Event("unsubscribe", c, calls[c].op, calls[c].id, NoValue, NoValue,
                     isLoading, calls[c].requests)

\* The caller unsubscribes before the response arrived: the request is
\* aborted and neither tap nor catchError runs.
Unsubscribe(c) ==
    /\ UNCHANGED others
    /\ c \in DOMAIN calls
    /\ calls[c].stage = "pending"
    /\ calls' = Remove(c)
    /\ cancelled' = TRUE
    /\ UNCHANGED <<items, currentItem, isLoading, issued, maxDone, overlapped>>
    /\ last' = Event("unsubscribe", c, calls[c].op, calls[c].id, NoValue, NoValue,
                     isLoading, calls[c].requests)

\* Settle with the flag left set after a success.
Settle_KeepsBusy(c, resp) ==
    /\ UNCHANGED others
    /\ isLoading' = isLoading
    /\ calls' = Remove(c)
    /\ maxDone' = Max(maxDone, c)
    /\ last' = Event("next", c, calls[c].op, calls[c].id, resp, resp, isLoading',
                     calls[c].requests)
    /\ UNCHANGED <<issued, overlapped, cancelled>>

\* Settle with the flag kept as a count of the outstanding calls.
Settle_CountsCalls(c, resp) ==
    /\ UNCHANGED others
    /\ isLoading' = (DOMAIN calls # {c})
    /\ calls' = Remove(c)
    /\ maxDone' = Max(maxDone, c)
    /\ last' = Event("next", c, calls[c].op, calls[c].id, resp, resp, isLoading',
                     calls[c].requests)
    /\ UNCHANGED <<issued, overlapped, cancelled>>

\* The part common to the five tap callbacks: the call is over, the flag is
\* reset and the response is handed on to the subscriber.
Settle(c, resp) ==
    /\ UNCHANGED others
    /\ isLoading' = FALSE
    /\ calls' = Remove(c)
    /\ maxDone' = Max(maxDone, c)
    /\ last' = Event("next", c, calls[c].op, calls[c].id, resp, resp, isLoading',
                     calls[c].requests)
    /\ UNCHANGED <<issued, overlapped, cancelled>>

\* Prepend putting the item last: [...items, item]
Prepend_Appends(item, its) == its \o <<item>>

\* items => [item, ...items]
Prepend(item, its) == <<item>> \o its

\* createNext also putting the created item in the slot.
createNext_SetsCurrent(c, item) ==
    /\ Pending(c, "create")
    /\ items' = Prepend(item, items)
    /\ currentItem' = item
    /\ Settle(c, Value(item, <<>>, NoError))

createNext(c, item) ==
    /\ Pending(c, "create")
    /\ items' = Prepend(item, items)
    /\ UNCHANGED currentItem
    /\ Settle(c, Value(item, <<>>, NoError))

getByIdNext(c, item) ==
    /\ Pending(c, "getById")
    /\ currentItem' = item
    /\ UNCHANGED items
    /\ Settle(c, Value(item, <<>>, NoError))

\* Replace stopping at the first element with the identifier.
Replace_FirstMatch(its, id, updatedItem) ==
    [i \in DOMAIN its |->
        IF getItemId(its[i]) = id /\ \A j \in 1..(i - 1) : getItemId(its[j]) # id
        THEN updatedItem ELSE its[i]]

\* items.map(item => this.getItemId(item) === id ? updatedItem : item)
Replace(its, id, updatedItem) ==
    [i \in DOMAIN its |-> IF getItemId(its[i]) = id THEN updatedItem ELSE its[i]]

\* updateNext without the write of the slot.
updateNext_SkipsCurrent(c, updatedItem) ==
    /\ Pending(c, "update")
    /\ UNCHANGED currentItem
    /\ items' = Replace(items, calls[c].id, updatedItem)
    /\ Settle(c, Value(updatedItem, <<>>, NoError))

updateNext(c, updatedItem) ==
    /\ Pending(c, "update")
    /\ currentItem' = updatedItem
    /\ items' = Replace(items, calls[c].id, updatedItem)
    /\ Settle(c, Value(updatedItem, <<>>, NoError))

\* items.filter(item => this.getItemId(item) !== id)
Without(its, id) == SelectSeq(its, LAMBDA item : getItemId(item) # id)

\* deleteNext without the clearing of the slot.
deleteNext_KeepsCurrent(c) ==
    /\ Pending(c, "delete")
    /\ items' = Without(items, calls[c].id)
    /\ UNCHANGED currentItem
    /\ Settle(c, NoValue)

deleteNext(c) ==
    /\ Pending(c, "delete")
    /\ items' = Without(items, calls[c].id)
    /\ currentItem' = IF currentItem # NoItem /\ getItemId(currentItem) = calls[c].id
                      THEN NoItem ELSE currentItem
    /\ Settle(c, NoValue)

\* getListNext adding the page to the mirror.
getListNext_Appends(c, content) ==
    /\ Pending(c, "getList")
    /\ items' = items \o content
    /\ UNCHANGED currentItem
    /\ Settle(c, Value(NoItem, content, NoError))

\* getListNext dropping the page of a call made before one already answered.
getListNext_DropsStale(c, content) ==
    /\ Pending(c, "getList")
    /\ items' = IF c < maxDone THEN items ELSE content
    /\ UNCHANGED currentItem
    /\ Settle(c, Value(NoItem, content, NoError))

getListNext(c, content) ==
    /\ Pending(c, "getList")
    /\ items' = content
    /\ UNCHANGED currentItem
    /\ Settle(c, Value(NoItem, content, NoError))

\* Rethrow replacing every error by a server error.
Rethrow_Replaces(error) == 500

\* throwError(() => error)
Rethrow(error) == error

\* catchError clearing the state as clearState does.
catchError_ClearsMirror(c, error) ==
    /\ UNCHANGED others
    /\ c \in DOMAIN calls
    /\ calls[c].stage = "pending"
    /\ isLoading' = FALSE
    /\ calls' = Remove(c)
    /\ items' = <<>>
    /\ currentItem' = NoItem
    /\ UNCHANGED <<issued, maxDone, overlapped, cancelled>>
    /\ last' = Event("error", c, calls[c].op, calls[c].id,
                     Value(NoItem, <<>>, error),
                     Value(NoItem, <<>>, Rethrow(error)), isLoading',
                     calls[c].requests)

\* catchError without the reset of the flag.
catchError_KeepsBusy(c, error) ==
    /\ UNCHANGED others
    /\ c \in DOMAIN calls
    /\ calls[c].stage = "pending"
    /\ isLoading' = isLoading
    /\ calls' = Remove(c)
    /\ UNCHANGED <<items, currentItem, issued, maxDone, overlapped, cancelled>>
    /\ last' = Event("error", c, calls[c].op, calls[c].id,
                     Value(NoItem, <<>>, error),
                     Value(NoItem, <<>>, Rethrow(error)), isLoading',
                     calls[c].requests)

\* The catchError callback, the same in the five operations.
catchError(c, error) ==
    /\ UNCHANGED others
    /\ c \in DOMAIN calls
    /\ calls[c].stage = "pending"
    /\ isLoading' = FALSE
    /\ calls' = Remove(c)
    /\ UNCHANGED <<items, currentItem, issued, maxDone, overlapped, cancelled>>
    /\ last' = Event("error", c, calls[c].op, calls[c].id,
                     Value(NoItem, <<>>, error),
                     Value(NoItem, <<>>, Rethrow(error)), isLoading',
                     calls[c].requests)

Next ==
    \/ create
    \/ \E id \in Ids : getById(id)
    \/ \E id \in Ids : update(id)
    \/ \E id \in Ids : delete(id)
    \/ getList
    \/ \E c \in 1..MaxCalls : Subscribe(c)
    \/ \E c \in 1..MaxCalls : Unsubscribe(c)
    \/ \E c \in 1..MaxCalls, item \in Item : createNext(c, item)
    \/ \E c \in 1..MaxCalls, item \in Item : getByIdNext(c, item)
    \/ \E c \in 1..MaxCalls, item \in Item : updateNext(c, item)
    \/ \E c \in 1..MaxCalls : deleteNext(c)
    \/ \E c \in 1..MaxCalls, content \in Pages : getListNext(c, content)
    \/ \E c \in 1..MaxCalls, error \in Errors : catchError(c, error)

Spec == Init /\ [][Next]_vars


\* The specification of the claims that assume every call is subscribed and
\* every request is answered: no call is cancelled, and a call that can be
\* subscribed or answered eventually is.  The busy flag does not depend on
\* the content of a response, so the responses are drawn from one revision
\* per identifier and from the pages of at most one item.
FirstRev == [id : Ids, rev : {"a"}]
ShortPages == {<<>>} \cup {<<item>> : item \in FirstRev}
Subscribing == \E c \in 1..MaxCalls : Subscribe(c)
Answering ==
    \/ \E c \in 1..MaxCalls, item \in FirstRev : createNext(c, item)
    \/ \E c \in 1..MaxCalls, item \in FirstRev : getByIdNext(c, item)
    \/ \E c \in 1..MaxCalls, item \in FirstRev : updateNext(c, item)
    \/ \E c \in 1..MaxCalls : deleteNext(c)
    \/ \E c \in 1..MaxCalls, content \in ShortPages : getListNext(c, content)
    \/ \E c \in 1..MaxCalls, error \in Errors : catchError(c, error)
Calling ==
    \/ create
    \/ \E id \in Ids : getById(id)
    \/ \E id \in Ids : update(id)
    \/ \E id \in Ids : delete(id)
    \/ getList
NextAnswered == Calling \/ Subscribing \/ Answering
LiveSpec ==
    Init /\ [][NextAnswered]_vars /\ WF_vars(Subscribing) /\ WF_vars(Answering)

----------------------------------------------------------------------------
\* The wrappers side by side.  Every wrapper is its own instance of the class,
\* so the signals an operation writes are the fields of the instance it was
\* called on; one call at a time per wrapper is enough to see the frame.

\* The mirror of a wrapper after a successful answer to op(id), as the tap
\* callbacks of the five operations compute it.
Applied(mirror, op, id, resp) ==
    CASE op = "create" ->
           [mirror EXCEPT !.items = Prepend(resp.item, mirror.items)]
      [] op = "getById" ->
           [mirror EXCEPT !.currentItem = resp.item]
      [] op = "update" ->
           [mirror EXCEPT !.items = Replace(mirror.items, id, resp.item),
                         !.currentItem = resp.item]
      [] op = "delete" ->
           [mirror EXCEPT !.items = Without(mirror.items, id),
                         !.currentItem = IF mirror.currentItem # NoItem
                                            /\ getItemId(mirror.currentItem) = id
                                         THEN NoItem ELSE mirror.currentItem]
      [] op = "getList" ->
           [mirror EXCEPT !.items = resp.page]

\* A write to the signals of one instance reaching every instance, as if the
\* fields were shared by the class.
Write_Shared(w, mirror) == [v \in Wrappers |-> mirror]

\* A write to the signals of the instance w.
Write(w, mirror) == [svc EXCEPT ![w] = mirror]

svcStep(kind, w) == [kind |-> kind, w |-> w, before |-> svc]

\* One of the five operations is called on w and subscribed.
svcCall(w, op, id) ==
    /\ svcIssued < MaxCalls + 1
    /\ svc[w].pending = NoCall
    /\ svc' = Write(w, [svc[w] EXCEPT !.isLoading = TRUE,
                                      !.pending = [op |-> op, id |-> id]])
    /\ svcIssued' = svcIssued + 1
    /\ svcLast' = svcStep("call", w)
    /\ UNCHANGED svcOthers

\* The call outstanding on w succeeds.
svcNext(w, resp) ==
    /\ svc[w].pending # NoCall
    /\ svc' = Write(w, [Applied(svc[w], svc[w].pending.op, svc[w].pending.id, resp)
                          EXCEPT !.isLoading = FALSE, !.pending = NoCall])
    /\ svcLast' = svcStep("next", w)
    /\ UNCHANGED <<svcOthers, svcIssued>>

\* The call outstanding on w fails.
svcError(w) ==
    /\ svc[w].pending # NoCall
    /\ svc' = Write(w, [svc[w] EXCEPT !.isLoading = FALSE, !.pending = NoCall])
    /\ svcLast' = svcStep("error", w)
    /\ UNCHANGED <<svcOthers, svcIssued>>

\* clearState() on w.
clearState(w) ==
    /\ svc[w].items # <<>> \/ svc[w].currentItem # NoItem
    /\ svc[w].pending = NoCall
    /\ svc' = Write(w, [svc[w] EXCEPT !.items = <<>>, !.currentItem = NoItem,
                                      !.isLoading = FALSE])
    /\ svcLast' = svcStep("clearState", w)
    /\ UNCHANGED <<svcOthers, svcIssued>>

WrapperNext ==
    \E w \in Wrappers :
        \/ \E op \in {"create", "getList"} : svcCall(w, op, 0)
        \/ \E op \in {"getById", "update", "delete"}, id \in Ids : svcCall(w, op, id)
        \/ \E item \in FirstRev, content \in ShortPages :
              svcNext(w, Value(item, content, NoError))
        \/ svcError(w)
        \/ clearState(w)

WrapperSpec == Init /\ [][WrapperNext]_allVars

----------------------------------------------------------------------------
\* ReactionService: the two mutations it adds to the generic operations.

rStep(kind, op, postId, resp) ==
    [kind |-> kind, op |-> op, postId |-> postId, resp |-> resp, before |-> rSignals]

rRemove(c) == [d \in DOMAIN rCalls \ {c} |-> rCalls[d]]

rPending(c, op) == c \in DOMAIN rCalls /\ rCalls[c].op = op

\* reactToPost(postId, type), subscribed: the flag is raised and the POST sent.
reactToPost(postId) ==
    /\ rIssued < MaxCalls + 1
    /\ rIsLoading' = TRUE
    /\ rCalls' = rCalls @@ (rIssued + 1 :> [op |-> "reactToPost", postId |-> postId])
    /\ rIssued' = rIssued + 1
    /\ rLast' = rStep("call", "reactToPost", postId, Message)
    /\ UNCHANGED <<rItems, rCurrentItem, rOthers>>

\* removeReaction(postId), subscribed: the DELETE is sent, the flag not touched.
removeReaction(postId) ==
    /\ rIssued < MaxCalls + 1
    /\ rCalls' = rCalls @@ (rIssued + 1 :> [op |-> "removeReaction", postId |-> postId])
    /\ rIssued' = rIssued + 1
    /\ rLast' = rStep("call", "removeReaction", postId, Message)
    /\ UNCHANGED <<rItems, rCurrentItem, rIsLoading, rOthers>>

\* reactToPost: tap.
reactToPostNext(c, response) ==
    /\ rPending(c, "reactToPost")
    /\ IF "id" \in DOMAIN response
       THEN /\ rCurrentItem' = response
            /\ rItems' = <<response>> \o rItems
       ELSE UNCHANGED <<rItems, rCurrentItem>>
    /\ rIsLoading' = FALSE
    /\ rCalls' = rRemove(c)
    /\ rLast' = rStep("next", "reactToPost", rCalls[c].postId, response)
    /\ UNCHANGED <<rIssued, rOthers>>

\* reactToPost: catchError.
reactToPostError(c) ==
    /\ rPending(c, "reactToPost")
    /\ rIsLoading' = FALSE
    /\ rCalls' = rRemove(c)
    /\ rLast' = rStep("error", "reactToPost", rCalls[c].postId, Message)
    /\ UNCHANGED <<rItems, rCurrentItem, rIssued, rOthers>>

\* removeReaction: tap.
removeReactionNext(c) ==
    /\ rPending(c, "removeReaction")
    /\ rItems' = SelectSeq(rItems, LAMBDA reaction : reaction.postId # rCalls[c].postId)
    /\ rCurrentItem' = NoReaction
    /\ rCalls' = rRemove(c)
    /\ rLast' = rStep("next", "removeReaction", rCalls[c].postId, Message)
    /\ UNCHANGED <<rIsLoading, rIssued, rOthers>>

\* removeReaction: catchError, which only rethrows.
removeReactionError(c) ==
    /\ rPending(c, "removeReaction")
    /\ rCalls' = rRemove(c)
    /\ rLast' = rStep("error", "removeReaction", rCalls[c].postId, Message)
    /\ UNCHANGED <<rItems, rCurrentItem, rIsLoading, rIssued, rOthers>>

ReactionNext ==
    \/ \E postId \in PostIds : reactToPost(postId)
    \/ \E postId \in PostIds : removeReaction(postId)
    \/ \E c \in 1..MaxCalls + 1 :
          \/ \E response \in Reaction \cup {Message} : reactToPostNext(c, response)
          \/ reactToPostError(c)
          \/ removeReactionNext(c)
          \/ removeReactionError(c)

ReactionSpec == Init /\ [][ReactionNext]_allVars

----------------------------------------------------------------------------
\* The session: AuthService, the two interceptors and the three route guards.

\* AuthService.isTokenValid: the payload decodes and exp is in the future.
isTokenValid(t) == t.kind = "jwt" /\ t.exp > now

\* AuthService.checkAuthenticationStatus, read from localStorage.
checkAuthenticationStatus ==
    storedToken # NoToken /\ storedUser # Absent /\ isTokenValid(storedToken)

\* AuthService.getToken.
getToken == storedToken

\* AuthService.isAdmin, computed from the signal.
isAdmin == currentUser.role.name = "ADMIN"

\* authInterceptor: the headers of an outgoing request.
authInterceptor ==
    IF getToken # NoToken THEN [Authorization |-> getToken]
    ELSE [Authorization |-> NoToken]

authStep(kind, op, error, thrown, allow, navigate) ==
    [kind |-> kind, op |-> op, error |-> error, thrown |-> thrown,
     allow |-> allow, navigate |-> navigate, before |-> sessionNow]

authRemove(c) == [d \in DOMAIN authRequests \ {c} |-> authRequests[d]]

\* AuthService.setAuthData.
setAuthData(t, u) ==
    /\ storedToken' = t
    /\ storedUser' = Stringify(u)
    /\ currentUser' = u
    /\ isAuthenticated' = TRUE

\* AuthService.updateCurrentUser.
updateCurrentUser(u) ==
    /\ currentUser' = u
    /\ storedUser' = Stringify(u)
    /\ UNCHANGED <<storedToken, isAuthenticated>>

\* The body of AuthService.logout.
clearSession ==
    /\ storedToken' = NoToken
    /\ storedUser' = Absent
    /\ currentUser' = NoUser
    /\ isAuthenticated' = FALSE

\* The page is loaded: the signals start at null and false, the authRequests of
\* the previous page are gone, and the constructor runs loadUserFromStorage.
loadUserFromStorage ==
    /\ authLast.kind # "load"
    /\ IF storedUser # Absent /\ storedToken # NoToken /\ isTokenValid(storedToken)
       THEN /\ currentUser' = Parse(storedUser)
            /\ isAuthenticated' = TRUE
       ELSE /\ currentUser' = NoUser
            /\ isAuthenticated' = FALSE
    /\ authRequests' = <<>>
    /\ authLast' = authStep("load", "constructor", NoHttpError, NoHttpError, FALSE, "none")
    /\ UNCHANGED <<storedToken, storedUser, url, now, authIssued, loggedOut, authOthers>>

\* A request of the AuthService is sent, through the authInterceptor.
Send(op) ==
    /\ authIssued < MaxCalls
    /\ authRequests' = authRequests @@ (authIssued + 1 :> [op |-> op, headers |-> authInterceptor])
    /\ authIssued' = authIssued + 1
    /\ authLast' = authStep("send", op, NoHttpError, NoHttpError, FALSE, "none")
    /\ UNCHANGED <<session, url, now, loggedOut, authOthers>>

login == Send("login")
updateUser == Send("updateUser")
adminUpdateUser == Send("adminUpdateUser")

\* login: tap.
loginNext(c, t, u) ==
    /\ c \in DOMAIN authRequests /\ authRequests[c].op = "login"
    /\ setAuthData(t, u)
    /\ loggedOut' = FALSE
    /\ authRequests' = authRemove(c)
    /\ authLast' = authStep("next", "login", NoHttpError, NoHttpError, FALSE, "none")
    /\ UNCHANGED <<url, now, authIssued, authOthers>>

\* updateUser and updateUserProfile: tap.  The server answers them with a
\* user only when the request carried a token.
updateUserNext(c, u) ==
    /\ c \in DOMAIN authRequests /\ authRequests[c].op = "updateUser"
    /\ authRequests[c].headers.Authorization # NoToken
    /\ updateCurrentUser(u)
    /\ authRequests' = authRemove(c)
    /\ authLast' = authStep("next", "updateUser", NoHttpError, NoHttpError, FALSE, "none")
    /\ UNCHANGED <<url, now, authIssued, loggedOut, authOthers>>

\* adminUpdateUser: tap.  The answer is a user, a user with a new token, or
\* neither; the server sends no token without the user it belongs to.
adminUpdateUserNext(c, t, u) ==
    /\ c \in DOMAIN authRequests /\ authRequests[c].op = "adminUpdateUser"
    /\ authRequests[c].headers.Authorization # NoToken
    /\ t # NoToken => u # NoUser
    /\ IF t # NoToken THEN setAuthData(t, u)
       ELSE IF u # NoUser THEN updateCurrentUser(u)
       ELSE UNCHANGED session
    /\ authRequests' = authRemove(c)
    /\ authLast' = authStep("next", "adminUpdateUser", NoHttpError, NoHttpError, FALSE, "none")
    /\ UNCHANGED <<url, now, authIssued, loggedOut, authOthers>>

\* AuthService.logout, called by the application.
logout ==
    /\ authLast.kind # "logout"
    /\ clearSession
    /\ loggedOut' = TRUE
    /\ authLast' = authStep("logout", "logout", NoHttpError, NoHttpError, FALSE, "none")
    /\ UNCHANGED <<url, now, authRequests, authIssued, authOthers>>

\* errorInterceptor.getErrorHandler: the handler of a status.
getErrorHandler(status) ==
    CASE status = 401 -> "handleUnauthorizedError"
      [] status = 403 -> "handleForbiddenError"
      [] status = 404 -> "handleNotFoundError"
      [] status = 500 -> "handleServerError"
      [] OTHER -> "handleGenericError"

\* handleUnauthorizedError without the logout.
handleUnauthorizedError_KeepsSession ==
    /\ url' = "/auth/login"
    /\ UNCHANGED <<session, loggedOut>>

\* handleUnauthorizedError: logout and go to the login page.
handleUnauthorizedError ==
    /\ clearSession
    /\ loggedOut' = TRUE
    /\ url' = "/auth/login"

\* handleForbiddenError: go to /unauthorized unless the request was about a
\* comment or a post.
handleForbiddenError(error) ==
    /\ url' = IF error.url \in {"/comments/1", "/posts/1"} THEN url ELSE "/unauthorized"
    /\ UNCHANGED <<session, loggedOut>>

\* errorInterceptor: the catchError of every request of the application.  c is
\* the request of the AuthService that failed, or 0 for a request of another
\* service.
errorInterceptor(c, error) ==
    /\ \/ c = 0 /\ error.url # "/auth" /\ authLast.kind # "httpError"
       \/ c \in DOMAIN authRequests /\ error.url = "/auth"
    /\ CASE getErrorHandler(error.status) = "handleUnauthorizedError" ->
              handleUnauthorizedError
         [] getErrorHandler(error.status) = "handleForbiddenError" ->
              handleForbiddenError(error)
         [] OTHER -> UNCHANGED <<session, loggedOut, url>>
    /\ authRequests' = authRemove(c)
    /\ authLast' = authStep("httpError", "errorInterceptor", error, Rethrow(error),
                            FALSE, "none")
    /\ UNCHANGED <<now, authIssued, authOthers>>

\* The guards: whether the route may be activated, and where the router is
\* sent otherwise.
Allow == [allow |-> TRUE, navigate |-> "none", logout |-> FALSE]
Refuse(target) == [allow |-> FALSE, navigate |-> target, logout |-> FALSE]

authGuard ==
    IF checkAuthenticationStatus THEN Allow ELSE Refuse("/auth/login")

\* guestGuard reading the signal in place of the storage.
guestGuard_TrustsSignal ==
    IF isAuthenticated THEN Refuse("/dashboard") ELSE Allow

\* guestGuard; checkAuthenticationStatus catches what its parsing throws, so
\* the guard's own catch with its logout is never entered.
guestGuard ==
    IF checkAuthenticationStatus THEN Refuse("/dashboard") ELSE Allow

\* adminGuard reading the signal in place of the storage.
adminGuard_TrustsSignal ==
    IF ~isAuthenticated THEN Refuse("/auth/login")
    ELSE IF isAdmin THEN Allow
    ELSE Refuse("/unauthorized")

adminGuard ==
    IF ~checkAuthenticationStatus THEN Refuse("/auth/login")
    ELSE IF isAdmin THEN Allow
    ELSE Refuse("/unauthorized")

Guards == {"authGuard", "guestGuard", "adminGuard"}
Guarded(guard) ==
    CASE guard = "authGuard" -> "/dashboard"
      [] guard = "guestGuard" -> "/auth/login"
      [] guard = "adminGuard" -> "/admin"
Decision(guard) ==
    CASE guard = "authGuard" -> authGuard
      [] guard = "guestGuard" -> guestGuard
      [] guard = "adminGuard" -> adminGuard

\* The router asks a guard for its route and follows its answer.
canActivate(guard) ==
    /\ ~(authLast.kind = "guard" /\ authLast.op = guard)
    /\ url' = IF Decision(guard).allow THEN Guarded(guard) ELSE Decision(guard).navigate
    /\ authLast' = authStep("guard", guard, NoHttpError, NoHttpError,
                            Decision(guard).allow, Decision(guard).navigate)
    /\ UNCHANGED <<session, now, authRequests, authIssued, loggedOut, authOthers>>

\* Time passes.
Tick ==
    /\ now < MaxTime
    /\ now' = now + 1
    /\ authLast' = authStep("tick", "none", NoHttpError, NoHttpError, FALSE, "none")
    /\ UNCHANGED <<session, url, authRequests, authIssued, loggedOut, authOthers>>

HttpErrors == [status : Statuses, url : {"/auth", "/posts/1", "/users/1"}]

AuthNext ==
    \/ login
    \/ updateUser
    \/ adminUpdateUser
    \/ \E c \in 1..MaxCalls, t \in Tokens, u \in User : loginNext(c, t, u)
    \/ \E c \in 1..MaxCalls, u \in User : updateUserNext(c, u)
    \/ \E c \in 1..MaxCalls, t \in Tokens \cup {NoToken}, u \in User \cup {NoUser} :
          adminUpdateUserNext(c, t, u)
    \/ logout
    \/ \E c \in 0..MaxCalls, error \in HttpErrors : errorInterceptor(c, error)
    \/ \E guard \in Guards : canActivate(guard)
    \/ loadUserFromStorage
    \/ Tick

AuthSpec == Init /\ [][AuthNext]_allVars

----------------------------------------------------------------------------
\* FeedComponent: the first page, the filter and the infinite scroll.

Min(a, b) == IF a <= b THEN a ELSE b

\* Array.prototype.slice(start, end) on a sequence, with 0-based bounds.
Slice(s, start, end) ==
    LET from == Min(start, Len(s))
        to == Min(end, Len(s))
    IN  [i \in 1..(to - from) |-> s[from + i]]

feedStep(kind, op, page, sent, response) ==
    [kind |-> kind, op |-> op, page |-> page, sent |-> sent, response |-> response,
     before |-> state]

feedRemove(c) == [d \in DOMAIN feedCalls \ {c} |-> feedCalls[d]]

\* What the server may answer to a request: a page of at most size posts.
Responses(request) ==
    [content : {Content(request.page, n) : n \in {m \in ContentSizes : m <= request.size}},
     totalPages : TotalPages]

\* getPersonalFeed({page, size}) subscribed.
getPersonalFeed(op, page, size) ==
    /\ feedCalls' = feedCalls @@ (feedIssued + 1 :> [op |-> op, page |-> page, size |-> size])
    /\ feedIssued' = feedIssued + 1

\* The body of loadFeed from the state s and with the filter status.
loadFeedFrom(s, status) ==
    /\ state' = [s EXCEPT !.loading = TRUE, !.error = NoFeedError, !.currentPage = 0]
    /\ getPersonalFeed("loadFeed", 0,
                       IF status # "ALL" THEN FILTER_LOAD_SIZE ELSE PAGE_SIZE)

\* ngOnInit(): the first loadFeed(), before any event of the page.
ngOnInit ==
    /\ feedIssued = 0
    /\ loadFeedFrom(state, statusFilter)
    /\ feedLast' = feedStep("call", "ngOnInit", 0, TRUE, NoResponse)
    /\ UNCHANGED <<statusFilter, filteredAllPosts, feedOthers>>

\* loadFeed(), as called again after a post was created or edited.
loadFeed ==
    /\ feedIssued > 0
    /\ feedIssued < MaxCalls + 2
    /\ loadFeedFrom(state, statusFilter)
    /\ feedLast' = feedStep("call", "loadFeed", 0, TRUE, NoResponse)
    /\ UNCHANGED <<statusFilter, filteredAllPosts, feedOthers>>

\* processFilteredPosts(posts).
processFilteredPosts(posts) ==
    LET filtered == SelectSeq(posts, LAMBDA p : p.privacyType = statusFilter)
    IN  /\ filteredAllPosts' = filtered
        /\ state' = [state EXCEPT !.posts = Slice(filtered, 0, PAGE_SIZE),
                                  !.hasMore = Len(filtered) > PAGE_SIZE,
                                  !.currentPage = 1,
                                  !.loading = FALSE]

\* loadFeed: next.
loadFeedNext(c, response) ==
    /\ c \in DOMAIN feedCalls /\ feedCalls[c].op = "loadFeed"
    /\ response \in Responses(feedCalls[c])
    /\ IF statusFilter # "ALL"
       THEN processFilteredPosts(response.content)
       ELSE /\ state' = [state EXCEPT !.posts = response.content,
                                      !.hasMore = response.totalPages > 1,
                                      !.currentPage = 1,
                                      !.loading = FALSE]
            /\ UNCHANGED filteredAllPosts
    /\ feedCalls' = feedRemove(c)
    /\ feedLast' = feedStep("next", "loadFeed", 0, FALSE, response)
    /\ UNCHANGED <<statusFilter, feedIssued, feedOthers>>

\* loadFeed: error.
loadFeedError(c) ==
    /\ c \in DOMAIN feedCalls /\ feedCalls[c].op = "loadFeed"
    /\ state' = [state EXCEPT !.error = "Error al cargar el feed", !.loading = FALSE]
    /\ feedCalls' = feedRemove(c)
    /\ feedLast' = feedStep("error", "loadFeed", 0, FALSE, NoResponse)
    /\ UNCHANGED <<statusFilter, filteredAllPosts, feedIssued, feedOthers>>

\* loadMorePosts(): nothing while a load-more is in flight or nothing is left;
\* with a filter the next chunk of the posts already loaded; else a request
\* for the page currentPage.
loadMorePosts ==
    /\ feedIssued > 0
    /\ feedLast.kind # "ignored"
    /\ IF state.loadingMore \/ ~state.hasMore
       THEN /\ feedLast' = feedStep("ignored", "loadMorePosts", state.currentPage,
                                    FALSE, NoResponse)
            /\ UNCHANGED <<state, feedCalls, feedIssued>>
       ELSE IF statusFilter # "ALL"
       THEN LET nextPage == state.currentPage
                start == nextPage * PAGE_SIZE
                end == start + PAGE_SIZE
                chunk == Slice(filteredAllPosts, start, end)
            IN  /\ state' = [state EXCEPT !.posts = state.posts \o chunk,
                                          !.hasMore = end < Len(filteredAllPosts),
                                          !.currentPage = nextPage + 1,
                                          !.loadingMore = FALSE]
                /\ feedLast' = feedStep("local", "loadMorePosts", nextPage, FALSE,
                                        [content |-> chunk, totalPages |-> 0])
                /\ UNCHANGED <<feedCalls, feedIssued>>
       ELSE /\ feedIssued < MaxCalls + 2
            /\ state' = [state EXCEPT !.loadingMore = TRUE]
            /\ getPersonalFeed("loadMorePosts", state.currentPage, PAGE_SIZE)
            /\ feedLast' = feedStep("call", "loadMorePosts", state.currentPage, TRUE,
                                    NoResponse)
    /\ UNCHANGED <<statusFilter, filteredAllPosts, feedOthers>>

\* loadMorePosts: next, for the request of page nextPage.
loadMorePostsNext(c, response) ==
    /\ c \in DOMAIN feedCalls /\ feedCalls[c].op = "loadMorePosts"
    /\ response \in Responses(feedCalls[c])
    /\ LET nextPage == feedCalls[c].page
       IN  /\ state' = [state EXCEPT !.posts = state.posts \o response.content,
                                     !.hasMore = nextPage + 1 < response.totalPages,
                                     !.currentPage = nextPage + 1,
                                     !.loadingMore = FALSE]
           /\ feedLast' = feedStep("next", "loadMorePosts", nextPage, FALSE, response)
    /\ feedCalls' = feedRemove(c)
    /\ UNCHANGED <<statusFilter, filteredAllPosts, feedIssued, feedOthers>>

\* loadMorePosts: error.
loadMorePostsError(c) ==
    /\ c \in DOMAIN feedCalls /\ feedCalls[c].op = "loadMorePosts"
    /\ state' = [state EXCEPT !.loadingMore = FALSE]
    /\ feedLast' = feedStep("error", "loadMorePosts", feedCalls[c].page, FALSE,
                            NoResponse)
    /\ feedCalls' = feedRemove(c)
    /\ UNCHANGED <<statusFilter, filteredAllPosts, feedIssued, feedOthers>>

\* onStatusFilterChange(event): the list is emptied and the feed loaded anew.
onStatusFilterChange(status) ==
    /\ feedIssued > 0
    /\ feedIssued < MaxCalls + 2
    /\ status # statusFilter
    /\ statusFilter' = status
    /\ filteredAllPosts' = <<>>
    /\ loadFeedFrom([state EXCEPT !.posts = <<>>, !.hasMore = TRUE, !.currentPage = 0],
                    status)
    /\ feedLast' = feedStep("call", "onStatusFilterChange", 0, TRUE, NoResponse)
    /\ UNCHANGED feedOthers

FeedNext ==
    \/ ngOnInit
    \/ loadFeed
    \/ loadMorePosts
    \/ \E status \in Filters : onStatusFilterChange(status)
    \/ \E c \in 1..MaxCalls + 2 :
          \/ \E page \in 0..MaxPage + 2, n \in ContentSizes, totalPages \in TotalPages :
                \/ loadFeedNext(c, [content |-> Content(page, n),
                                    totalPages |-> totalPages])
                \/ loadMorePostsNext(c, [content |-> Content(page, n),
                                         totalPages |-> totalPages])
          \/ loadFeedError(c)
          \/ loadMorePostsError(c)

FeedSpec == Init /\ [][FeedNext]_allVars

----------------------------------------------------------------------------
\* UserManagementComponent: searchUsers and the pipeline of setupSearchDebounce.

\* users, totalPages and totalElements as a response carries them.
Shown == [users |-> found.users, totalPages |-> found.totalPages,
          totalElements |-> found.totalElements]

searchStep(kind, seq, shown) ==
    [kind |-> kind, seq |-> seq, shown |-> shown, shownBefore |-> searchLast.shown,
     before |-> Shown]

\* mergeMap in the place of switchMap: the earlier inner observables stay
\* subscribed.
switchMap_Merges(cs) == cs

\* switchMap on a new value: the inner observable of the previous value is
\* unsubscribed, which aborts its request.
switchMap(cs) == [c \in DOMAIN cs |-> [cs[c] EXCEPT !.subscribed = FALSE]]

\* searchUsers(query): the trimmed text is shown and handed to the subject;
\* debounceTime restarts its timer with it.
searchUsers(query) ==
    /\ debounced # Trim(query)
    /\ found' = [found EXCEPT !.searchQuery = Trim(query)]
    /\ debounced' = Trim(query)
    /\ searchLast' = searchStep("typed", 0, searchLast.shown)
    /\ UNCHANGED <<emitted, searchCalls, searchIssued, searchOthers>>

\* 300 ms have passed since the last keystroke: distinctUntilChanged drops a
\* value equal to the last one emitted; any other value reaches switchMap,
\* whose project function sends the request for it.
debounceTime ==
    /\ debounced # Nothing
    /\ debounced' = Nothing
    /\ IF debounced = emitted
       THEN /\ searchLast' = searchStep("dropped", 0, searchLast.shown)
            /\ UNCHANGED <<found, emitted, searchCalls, searchIssued>>
       ELSE /\ searchIssued < MaxCalls + 1
            /\ emitted' = debounced
            /\ found' = [found EXCEPT !.currentPage = 0, !.loading = TRUE]
            /\ searchCalls' = switchMap(searchCalls) @@
                   (searchIssued + 1 :>
                        [query |-> debounced, subscribed |-> TRUE,
                         op |-> IF debounced # "" THEN "searchAllUsers"
                                ELSE "getAllUsers"])
            /\ searchIssued' = searchIssued + 1
            /\ searchLast' = searchStep("emitted", searchIssued + 1, searchLast.shown)
    /\ UNCHANGED searchOthers

searchRemove(c) == [d \in DOMAIN searchCalls \ {c} |-> searchCalls[d]]

\* The answer to request c: handed to the subscriber when its inner
\* observable is still subscribed, lost otherwise.
searchNext(c, result) ==
    /\ c \in DOMAIN searchCalls
    /\ IF searchCalls[c].subscribed
       THEN /\ found' = [found EXCEPT !.users = result.users,
                                      !.totalPages = result.totalPages,
                                      !.totalElements = result.totalElements,
                                      !.loading = FALSE]
            /\ searchLast' = searchStep("applied", c, c)
       ELSE /\ searchLast' = searchStep("discarded", c, searchLast.shown)
            /\ UNCHANGED found
    /\ searchCalls' = searchRemove(c)
    /\ UNCHANGED <<debounced, emitted, searchIssued, searchOthers>>

\* Request c fails: catchError notes the error and answers with an empty page.
searchError(c) ==
    /\ c \in DOMAIN searchCalls
    /\ IF searchCalls[c].subscribed
       THEN /\ found' = [found EXCEPT !.users = <<>>, !.totalPages = 0,
                                      !.totalElements = 0,
                                      !.error = "error", !.loading = FALSE]
            /\ searchLast' = searchStep("applied", c, c)
       ELSE /\ searchLast' = searchStep("discarded", c, searchLast.shown)
            /\ UNCHANGED found
    /\ searchCalls' = searchRemove(c)
    /\ UNCHANGED <<debounced, emitted, searchIssued, searchOthers>>

SearchNext ==
    \/ \E query \in Typed : searchUsers(query)
    \/ debounceTime
    \/ \E c \in 1..MaxCalls + 1, result \in Results : searchNext(c, result)
    \/ \E c \in 1..MaxCalls + 1 : searchError(c)

SearchSpec == Init /\ [][SearchNext]_allVars

----------------------------------------------------------------------------
\* ChatbotComponent: typing, sending and resetting the conversation.

chatStep(kind, sent, reset) ==
    [kind |-> kind, sent |-> sent, reset |-> reset, before |-> chat]

chatRemove(c) == [d \in DOMAIN chatCalls \ {c} |-> chatCalls[d]]

Sending == {c \in DOMAIN chatCalls : chatCalls[c].op = "sendMessage"}

\* onInputChange(event).
onInputChange(text) ==
    /\ chat.currentInput # text
    /\ chat' = [chat EXCEPT !.currentInput = text]
    /\ chatLast' = chatStep("input", FALSE, chatLast.reset)
    /\ UNCHANGED <<chatCalls, chatIssued, chatOthers>>

\* sendMessage(): nothing for an empty input or while the bot is typing; else
\* the user's message is appended and the request sent.
sendMessage ==
    /\ chatLast.kind # "ignored"
    /\ IF TrimInput(chat.currentInput) = "" \/ chat.isTyping
       THEN /\ chatLast' = chatStep("ignored", FALSE, chatLast.reset)
            /\ UNCHANGED <<chat, chatCalls, chatIssued>>
       ELSE /\ chatIssued < MaxCalls + 1
            /\ chat' = [chat EXCEPT
                   !.messages = @ \o <<createMessage(TrimInput(chat.currentInput), "USER")>>,
                   !.isTyping = TRUE,
                   !.currentInput = ""]
            /\ chatCalls' = chatCalls @@
                   (chatIssued + 1 :> [op |-> "sendMessage",
                                       input |-> TrimInput(chat.currentInput)])
            /\ chatIssued' = chatIssued + 1
            /\ chatLast' = chatStep("sent", TRUE, chatLast.reset)
    /\ UNCHANGED chatOthers

\* sendMessage: the answer arrives; subscribe appends it, finalize resets
\* isTyping.
sendMessageNext(c, response) ==
    /\ c \in Sending
    /\ chat' = [chat EXCEPT !.messages = @ \o <<response>>, !.isTyping = FALSE]
    /\ chatCalls' = chatRemove(c)
    /\ chatLast' = chatStep("answered", FALSE, chatLast.reset)
    /\ UNCHANGED <<chatIssued, chatOthers>>

\* sendMessage: catchError appends the notice; its null is not appended.
sendMessageError(c) ==
    /\ c \in Sending
    /\ chat' = [chat EXCEPT !.messages = @ \o <<ErrorNotice>>, !.isTyping = FALSE]
    /\ chatCalls' = chatRemove(c)
    /\ chatLast' = chatStep("failed", FALSE, chatLast.reset)
    /\ UNCHANGED <<chatIssued, chatOthers>>

\* resetConversation(): the state is emptied at once and the stored
\* conversation cleared on the server.
resetConversation ==
    /\ chatIssued < MaxCalls + 1
    /\ chat' = [chat EXCEPT !.messages = <<>>, !.currentInput = "", !.isTyping = FALSE]
    /\ chatCalls' = chatCalls @@
           (chatIssued + 1 :> [op |-> "clearCurrentUserConversation", input |-> ""])
    /\ chatIssued' = chatIssued + 1
    /\ chatLast' = chatStep("reset", FALSE, TRUE)
    /\ UNCHANGED chatOthers

\* resetConversation: the clearing is over, with or without an error.
addWelcomeMessage(c) ==
    /\ c \in DOMAIN chatCalls /\ chatCalls[c].op = "clearCurrentUserConversation"
    /\ chat' = [chat EXCEPT !.messages = <<Welcome>>]
    /\ chatCalls' = chatRemove(c)
    /\ chatLast' = chatStep("welcome", FALSE, chatLast.reset)
    /\ UNCHANGED <<chatIssued, chatOthers>>

ChatNext ==
    \/ \E text \in Inputs : onInputChange(text)
    \/ sendMessage
    \/ \E c \in 1..MaxCalls + 1, response \in Answers : sendMessageNext(c, response)
    \/ \E c \in 1..MaxCalls + 1 : sendMessageError(c)
    \/ resetConversation
    \/ \E c \in 1..MaxCalls + 1 : addWelcomeMessage(c)

ChatSpec == Init /\ [][ChatNext]_allVars

----------------------------------------------------------------------------
\* ProfileComponent: loading the profile and deleting the account.

pStep(kind, count) ==
    [kind |-> kind, count |-> count, issuedBefore |-> pIssued, before |-> profile]

pRemove(c) == [d \in DOMAIN pCalls \ {c} |-> pCalls[d]]

pSend(op) == pCalls @@ (pIssued + 1 :> [op |-> op, count |-> 0])

\* The page is shown and can still send requests.
Shown_Profile == profile.role # "none" /\ ~profile.left

\* isAdmin.
profileIsAdmin == profile.role = "ADMIN"

\* The test of the switchMap in deleteAccount.
LastAdminLeft_OnlyZero(count) == count < 1
LastAdminLeft(count) == count <= 1

\* handleError(message).
handleError(message) ==
    [profile EXCEPT !.errorMessage = message, !.isLoading = FALSE]

\* loadUserProfile().
loadUserProfile(role) ==
    /\ profile' = [profile EXCEPT !.role = role, !.isLoading = TRUE,
                                  !.errorMessage = NoMessage]
    /\ pCalls' = pSend("getCurrentUser")
    /\ pIssued' = pIssued + 1

\* constructor(), for the user signed in.
ProfileComponent(role) ==
    /\ profile.role = "none"
    /\ loadUserProfile(role)
    /\ pLast' = pStep("constructed", 0)
    /\ UNCHANGED <<pStorage, profileOthers>>

\* reloadProfile().
reloadProfile ==
    /\ Shown_Profile
    /\ pIssued < MaxCalls + 2
    /\ loadUserProfile(profile.role)
    /\ pLast' = pStep("reload", 0)
    /\ UNCHANGED <<pStorage, profileOthers>>

\* loadUserProfile: the profile arrives; finalize resets isLoading.
loadUserProfileNext(c) ==
    /\ Shown_Profile
    /\ c \in DOMAIN pCalls /\ pCalls[c].op = "getCurrentUser"
    /\ profile' = [profile EXCEPT !.isLoading = FALSE]
    /\ pCalls' = pRemove(c)
    /\ pLast' = pStep("loaded", 0)
    /\ UNCHANGED <<pStorage, pIssued, profileOthers>>

\* loadUserProfile: the request fails.
loadUserProfileError(c) ==
    /\ Shown_Profile
    /\ c \in DOMAIN pCalls /\ pCalls[c].op = "getCurrentUser"
    /\ profile' = handleError(LoadFailed)
    /\ pCalls' = pRemove(c)
    /\ pLast' = pStep("loadFailed", 0)
    /\ UNCHANGED <<pStorage, pIssued, profileOthers>>

\* showDeleteConfirmation().
showDeleteConfirmation ==
    /\ Shown_Profile
    /\ ~profile.showDeleteConfirm
    /\ profile' = [profile EXCEPT !.showDeleteConfirm = TRUE]
    /\ pLast' = pStep("confirm", 0)
    /\ UNCHANGED <<pStorage, pCalls, pIssued, profileOthers>>

\* cancelDelete().
cancelDelete ==
    /\ Shown_Profile
    /\ profile.showDeleteConfirm
    /\ profile' = [profile EXCEPT !.showDeleteConfirm = FALSE]
    /\ pLast' = pStep("cancel", 0)
    /\ UNCHANGED <<pStorage, pCalls, pIssued, profileOthers>>

\* deleteAccount(): nothing while isLoading is set; an administrator first
\* asks for the number of active administrators, anybody else deletes at once.
deleteAccount ==
    /\ Shown_Profile
    /\ pLast.kind # "ignored"
    /\ IF profile.isLoading
       THEN /\ pLast' = pStep("ignored", 0)
            /\ UNCHANGED <<profile, pCalls, pIssued>>
       ELSE /\ pIssued < MaxCalls + 2
            /\ profile' = [profile EXCEPT !.isLoading = TRUE,
                                          !.errorMessage = NoMessage]
            /\ pCalls' = pSend(IF profileIsAdmin THEN "getActiveAdminCount"
                                                 ELSE "deleteCurrentUser")
            /\ pIssued' = pIssued + 1
            /\ pLast' = pStep("deleteAccount", 0)
    /\ UNCHANGED <<pStorage, profileOthers>>

\* deleteAccount: the count arrives; the last administrator is stopped with
\* a message, otherwise the deletion is requested.
getActiveAdminCountNext(c, count) ==
    /\ Shown_Profile
    /\ c \in DOMAIN pCalls /\ pCalls[c].op = "getActiveAdminCount"
    /\ IF LastAdminLeft(count)
       THEN /\ profile' = handleError(LastAdmin)
            /\ pCalls' = pRemove(c)
            /\ pLast' = pStep("aborted", count)
       ELSE /\ pCalls' = [pCalls EXCEPT ![c] = [op |-> "deleteCurrentUser",
                                                count |-> count]]
            /\ pLast' = pStep("counted", count)
            /\ UNCHANGED profile
    /\ UNCHANGED <<pStorage, pIssued, profileOthers>>

\* deleteAccount: the account is deleted; the session is removed from the
\* storage and the page left.
deleteCurrentUserNext(c) ==
    /\ Shown_Profile
    /\ c \in DOMAIN pCalls /\ pCalls[c].op = "deleteCurrentUser"
    /\ pStorage' = [token |-> FALSE, user |-> FALSE]
    /\ profile' = [profile EXCEPT !.left = TRUE]
    /\ pCalls' = pRemove(c)
    /\ pLast' = pStep("deleted", pCalls[c].count)
    /\ UNCHANGED <<pIssued, profileOthers>>

\* deleteAccount: the count or the deletion fails.
deleteAccountError(c) ==
    /\ Shown_Profile
    /\ c \in DOMAIN pCalls
    /\ pCalls[c].op \in {"getActiveAdminCount", "deleteCurrentUser"}
    /\ profile' = [handleError(DeleteFailed) EXCEPT !.isLoading = FALSE,
                                                    !.showDeleteConfirm = FALSE]
    /\ pCalls' = pRemove(c)
    /\ pLast' = pStep("deleteFailed", 0)
    /\ UNCHANGED <<pStorage, pIssued, profileOthers>>

ProfileNext ==
    \/ \E role \in ProfileRoles : ProfileComponent(role)
    \/ reloadProfile
    \/ \E c \in 1..MaxCalls + 2 : loadUserProfileNext(c)
    \/ \E c \in 1..MaxCalls + 2 : loadUserProfileError(c)
    \/ showDeleteConfirmation
    \/ cancelDelete
    \/ deleteAccount
    \/ \E c \in 1..MaxCalls + 2, count \in Counts : getActiveAdminCountNext(c, count)
    \/ \E c \in 1..MaxCalls + 2 : deleteCurrentUserNext(c)
    \/ \E c \in 1..MaxCalls + 2 : deleteAccountError(c)

ProfileSpec == Init /\ [][ProfileNext]_allVars

----------------------------------------------------------------------------
\* create and getList against a server that gives every created item a fresh
\* identifier and answers getList with a page of what it stores.

sStep(kind, seq) == [kind |-> kind, seq |-> seq]

sRemove(c) == [d \in DOMAIN sCalls \ {c} |-> sCalls[d]]

\* The requests carry what the server answered once it has handled them.
sRequest(op, page) ==
    [op |-> op, page |-> page, stage |-> "sent", item |-> NoItem, content |-> <<>>]

\* Page `page` of the store, MaxPage items a page.
PageOf(its, page) ==
    SubSeq(its, Min(page * MaxPage + 1, Len(its) + 1),
                Min((page + 1) * MaxPage, Len(its)))

\* Identifiers are apart in a list.
Distinct(its) ==
    \A i, j \in 1..Len(its) : getItemId(its[i]) = getItemId(its[j]) => i = j

\* create(request), subscribed: the POST is sent.
sentCreate ==
    /\ sIssued < MaxCalls + 1
    /\ sCalls' = sCalls @@ (sIssued + 1 :> sRequest("create", 0))
    /\ sIssued' = sIssued + 1
    /\ sLast' = sStep("create", sIssued + 1)
    /\ UNCHANGED <<store, mirrorItems, servedOthers>>

\* getList(params), subscribed: the GET is sent.
sentGetList(page) ==
    /\ sIssued < MaxCalls + 1
    /\ sCalls' = sCalls @@ (sIssued + 1 :> sRequest("getList", page))
    /\ sIssued' = sIssued + 1
    /\ sLast' = sStep("getList", sIssued + 1)
    /\ UNCHANGED <<store, mirrorItems, servedOthers>>

\* The server handles a request: a created item gets the next identifier, a
\* list is answered with the page as stored now.
Serve(c) ==
    /\ c \in DOMAIN sCalls
    /\ sCalls[c].stage = "sent"
    /\ IF sCalls[c].op = "create"
       THEN /\ store' = <<[id |-> Len(store) + 1, rev |-> "a"]>> \o store
            /\ sCalls' = [sCalls EXCEPT ![c].stage = "served",
                              ![c].item = [id |-> Len(store) + 1, rev |-> "a"]]
       ELSE /\ sCalls' = [sCalls EXCEPT ![c].stage = "served",
                              ![c].content = PageOf(store, sCalls[c].page)]
            /\ UNCHANGED store
    /\ sLast' = sStep("served", c)
    /\ UNCHANGED <<mirrorItems, sIssued, servedOthers>>

\* create: the tap on the created item.
servedCreateNext(c) ==
    /\ c \in DOMAIN sCalls
    /\ sCalls[c].stage = "served" /\ sCalls[c].op = "create"
    /\ mirrorItems' = Prepend(sCalls[c].item, mirrorItems)
    /\ sCalls' = sRemove(c)
    /\ sLast' = sStep("createNext", c)
    /\ UNCHANGED <<store, sIssued, servedOthers>>

\* getList: the tap on the page.
servedGetListNext(c) ==
    /\ c \in DOMAIN sCalls
    /\ sCalls[c].stage = "served" /\ sCalls[c].op = "getList"
    /\ mirrorItems' = sCalls[c].content
    /\ sCalls' = sRemove(c)
    /\ sLast' = sStep("getListNext", c)
    /\ UNCHANGED <<store, sIssued, servedOthers>>

\* Either: the request or its answer is lost; the mirror is not written.
servedError(c) ==
    /\ c \in DOMAIN sCalls
    /\ sCalls' = sRemove(c)
    /\ sLast' = sStep("error", c)
    /\ UNCHANGED <<store, mirrorItems, sIssued, servedOthers>>

ServedNext ==
    \/ sentCreate
    \/ \E page \in 0..1 : sentGetList(page)
    \/ \E c \in 1..MaxCalls + 1 : Serve(c)
    \/ \E c \in 1..MaxCalls + 1 : servedCreateNext(c)
    \/ \E c \in 1..MaxCalls + 1 : servedGetListNext(c)
    \/ \E c \in 1..MaxCalls + 1 : servedError(c)

ServedSpec == Init /\ [][ServedNext]_allVars

----------------------------------------------------------------------------
\* FollowService: followUser is create, unfollowUser(userId) is delete(userId),
\* and the mirror is compared by the identifier of the relationship.

fStep(kind, userId) == [kind |-> kind, userId |-> userId, before |-> follow.items]

fRemove(c) == [d \in DOMAIN fCalls \ {c} |-> fCalls[d]]

\* The relationships of the mirror towards a user, and the others.
Towards(its, userId) == SelectSeq(its, LAMBDA f : f.followedId = userId)
NotTowards(its, userId) == SelectSeq(its, LAMBDA f : f.followedId # userId)

\* An operation of the base class is called and subscribed.
fCall(op, id) ==
    /\ fIssued < MaxCalls + 1
    /\ follow' = [follow EXCEPT !.isLoading = TRUE]
    /\ fCalls' = fCalls @@ (fIssued + 1 :> [op |-> op, id |-> id])
    /\ fIssued' = fIssued + 1
    /\ fLast' = fStep("call", id)
    /\ UNCHANGED followOthers

\* The tap of the operation.
fNext(c, kind, resp) ==
    /\ follow' = [Applied(follow, fCalls[c].op, fCalls[c].id, resp)
                     EXCEPT !.isLoading = FALSE]
    /\ fCalls' = fRemove(c)
    /\ fLast' = fStep(kind, fCalls[c].id)
    /\ UNCHANGED <<fIssued, followOthers>>

\* followUser(request).
followUser(userId) == fCall("create", userId)

\* followUser: the relationship created arrives; the server gives it an
\* identifier of its own and keeps one relationship per followed user.
followUserNext(c, id) ==
    /\ c \in DOMAIN fCalls /\ fCalls[c].op = "create"
    /\ \A i \in 1..Len(follow.items) :
          /\ follow.items[i].id # id
          /\ follow.items[i].followedId # fCalls[c].id
    /\ fNext(c, "followed",
             Value([id |-> id, followedId |-> fCalls[c].id], <<>>, NoError))

\* getList(params).
followGetList == fCall("getList", 0)

\* getList: the page arrives.
followGetListNext(c, content) ==
    /\ c \in DOMAIN fCalls /\ fCalls[c].op = "getList"
    /\ fNext(c, "listed", Value(NoItem, content, NoError))

\* unfollowUser(userId).
unfollowUser(userId) == fCall("delete", userId)

\* unfollowUser: the server has removed the relationship towards the user.
unfollowUserNext(c) ==
    /\ c \in DOMAIN fCalls /\ fCalls[c].op = "delete"
    /\ fNext(c, "unfollowed", Value(NoItem, <<>>, NoError))

\* Any of them fails.
followError(c) ==
    /\ c \in DOMAIN fCalls
    /\ follow' = [follow EXCEPT !.isLoading = FALSE]
    /\ fCalls' = fRemove(c)
    /\ fLast' = fStep("error", fCalls[c].id)
    /\ UNCHANGED <<fIssued, followOthers>>

FollowNext ==
    \/ \E userId \in Ids : followUser(userId)
    \/ \E c \in 1..MaxCalls + 1, id \in Ids : followUserNext(c, id)
    \/ followGetList
    \/ \E c \in 1..MaxCalls + 1, content \in FollowPages : followGetListNext(c, content)
    \/ \E userId \in Ids : unfollowUser(userId)
    \/ \E c \in 1..MaxCalls + 1 : unfollowUserNext(c)
    \/ \E c \in 1..MaxCalls + 1 : followError(c)

FollowSpec == Init /\ [][FollowNext]_allVars

----------------------------------------------------------------------------
\* Steps, told by the event they leave in `last`.
Stepped == last' # last
Called == Stepped /\ last'.kind = "call"
Subscribed == Stepped /\ last'.kind = "subscribe"
Succeeded(op) == Stepped /\ last'.kind = "next" /\ last'.op = op
Failed == Stepped /\ last'.kind = "error"
Settled == Stepped /\ last'.kind \in {"next", "error"}

\* C1: the steps of an operation that fails (its call, its subscription and
\* its catchError callback) leave items and currentItem as they were.
C1_FailureKeepsMirror ==
    [][(Called \/ Subscribed \/ Failed) =>
          (items' = items /\ currentItem' = currentItem)]_vars

\* An operation has failed while the mirror held items.
C1_Witness ==
    /\ last.kind = "error"
    /\ items # <<>>
    /\ Len(items) = last.had
    /\ ~last.changed.items /\ ~last.changed.current

\* C2: a successful create puts the returned item in front of the previous
\* items, and the caller receives that item.
C2_CreatePrepends ==
    [][Succeeded("create") =>
          /\ items' = <<last'.resp.item>> \o items
          /\ last'.out.item = last'.resp.item
          /\ items'[1] = last'.out.item]_vars

\* A create has succeeded on a mirror that was not empty.
C2_Witness ==
    /\ last.kind = "next" /\ last.op = "create"
    /\ last.had >= 1
    /\ Len(items) = last.had + 1
    /\ items[1] = last.out.item

\* C3: a successful update(id) replaces every element of items whose id is id
\* by the returned item, and changes no other element, nor the order or
\* length of items.
C3_UpdateReplacesInPlace ==
    [][Succeeded("update") =>
          /\ Len(items') = Len(items)
          /\ \A i \in 1..Len(items) :
                items'[i] = IF items[i].id = last'.id THEN last'.resp.item
                            ELSE items[i]]_vars

\* An update has replaced an element of a mirror that also holds an element
\* with another id.
C3_Witness ==
    /\ last.kind = "next" /\ last.op = "update"
    /\ last.changed.items
    /\ \E i, j \in 1..Len(items) :
          items[i] = last.out.item /\ items[j].id # last.id /\ items[j] # last.out.item

\* C4: a successful delete(id) leaves in items exactly the elements whose id is
\* not id, in their order; currentItem becomes null if its id was id and is
\* unchanged otherwise.
C4_DeleteRemoves ==
    [][Succeeded("delete") =>
          /\ \A i \in 1..Len(items') : items'[i].id # last'.id
          /\ items' = SelectSeq(items, LAMBDA it : it.id # last'.id)
          /\ currentItem' = IF currentItem.id = last'.id THEN NoItem
                            ELSE currentItem]_vars

\* A delete has removed an element and left another one.
C4_Witness ==
    /\ last.kind = "next" /\ last.op = "delete"
    /\ Len(items) < last.had
    /\ items # <<>>

\* C5: after a successful getList, items is the returned page content and
\* currentItem is unchanged.
C5_GetListReplaces ==
    [][Succeeded("getList") =>
          /\ items' = last'.resp.page
          /\ last'.out.page = last'.resp.page
          /\ currentItem' = currentItem]_vars

\* A getList has replaced a mirror that was not empty by a shorter page.
C5_Witness ==
    /\ last.kind = "next" /\ last.op = "getList"
    /\ last.had = 2
    /\ items = last.out.page
    /\ Len(items) = 1

C7_FlagSetAndReset ==
    /\ [][/\ Called => isLoading'
          /\ Settled => ~isLoading'
          /\ isLoading' # isLoading => (Called \/ Settled)]_vars
    /\ (isLoading ~> ~isLoading)

\* A failure has reset the flag.
C7_Witness ==
    /\ last.kind = "error"
    /\ ~isLoading
    /\ DOMAIN calls = {}

\* C8: when a call settles while another one is outstanding, isLoading is
\* false.
C8_NotAReferenceCount ==
    (last.kind \in {"next", "error"} /\ DOMAIN calls # {}) => ~isLoading

\* A call has settled, the flag is down and a request is still pending.
C8_Witness ==
    /\ last.kind \in {"next", "error"}
    /\ \E c \in DOMAIN calls : calls[c].stage = "pending"
    /\ ~isLoading

\* C9: a response is applied when it arrives, also when a call made later
\* has already been answered: after the getList made first is answered last,
\* items is its page, and after such a getById or update currentItem is its
\* item.
C9_ArrivalOrder ==
    (last.kind = "next" /\ last.seq < maxDone) =>
        /\ last.op = "getList" => items = last.resp.page
        /\ last.op \in {"getById", "update"} => currentItem = last.resp.item
        /\ last.op = "create" => (items # <<>> /\ items[1] = last.resp.item)
        /\ last.op = "delete" => \A i \in 1..Len(items) : items[i].id # last.id

\* The getList made first was answered after the call made second, and its
\* page has replaced what the mirror held.
C9_Witness ==
    /\ last.kind = "next" /\ last.op = "getList"
    /\ last.seq < maxDone
    /\ last.changed.items
    /\ items = last.resp.page

\* C10: the subscriber of a failed operation receives the error of the
\* transport, sees the flag reset, and one request was sent for the call,
\* which is over.
C10_ErrorPassedOn ==
    last.kind = "error" =>
        /\ last.out = last.resp
        /\ last.out.error \in Errors
        /\ ~last.busy
        /\ last.requests = 1
        /\ last.seq \notin DOMAIN calls

\* An operation has failed with status 404.
C10_Witness ==
    /\ last.kind = "error"
    /\ last.resp.error = 404
    /\ last.out.error = 404

\* C11: after a successful getById or update, currentItem is the returned
\* item, which the caller receives; getById leaves items as they were.
C11_SlotHoldsReturnedItem ==
    (last.kind = "next" /\ last.op \in {"getById", "update"}) =>
        /\ currentItem = last.resp.item
        /\ last.out.item = last.resp.item
        /\ last.op = "getById" => ~last.changed.items

\* An update has put a new item in the slot.
C11_Witness ==
    /\ last.kind = "next" /\ last.op = "update"
    /\ last.changed.current
    /\ currentItem = last.out.item

\* C12 as claimed: after a successful getById, create or update, currentItem
\* is the item the operation returned.
C12_SlotHoldsLastSingleItem ==
    (last.kind = "next" /\ last.op \in {"getById", "create", "update"}) =>
        currentItem = last.resp.item

\* C12, amended: currentItem is written by a successful getById or update,
\* with the returned item, and by a successful delete of its identifier, with
\* null, and by nothing else; a create leaves it as it was.
C12_SlotWrittenByGetUpdateDelete ==
    [][/\ (Succeeded("getById") \/ Succeeded("update")) =>
              currentItem' = last'.resp.item
       /\ Succeeded("create") => currentItem' = currentItem
       /\ currentItem' # currentItem =>
              \/ Succeeded("getById") \/ Succeeded("update")
              \/ /\ Succeeded("delete")
                 /\ currentItem.id = last'.id
                 /\ currentItem' = NoItem]_vars

\* A create has succeeded while the slot held the item of an earlier getById
\* or update, which it still holds.
C12_Witness ==
    /\ last.kind = "next" /\ last.op = "create"
    /\ currentItem # NoItem
    /\ currentItem # last.resp.item
    /\ items[1] = last.resp.item

\* C13: a call that was unsubscribed before its response is over: the
\* unsubscription changes neither items nor currentItem, the call is no
\* longer outstanding, only the response of an outstanding, subscribed call
\* settles or changes items or currentItem, and a call number is used once.
C13_CancelledCallIgnored ==
    [][/\ (Stepped /\ last'.kind = "unsubscribe") =>
              /\ last'.seq \notin DOMAIN calls'
              /\ items' = items /\ currentItem' = currentItem
       /\ (Settled \/ items' # items \/ currentItem' # currentItem) =>
              /\ Settled
              /\ last'.seq \in DOMAIN calls
              /\ calls[last'.seq].stage = "pending"
       /\ DOMAIN calls' \ DOMAIN calls \subseteq {issued + 1}
       /\ issued' >= issued
       /\ DOMAIN calls' \subseteq 1..issued']_vars

\* A call was unsubscribed while the mirror held items, and nothing is
\* outstanding.
C13_Witness ==
    /\ last.kind = "unsubscribe"
    /\ items # <<>>
    /\ DOMAIN calls = {}
    /\ ~last.changed.items /\ ~last.changed.current

\* C14: every wrapper is constructed with an empty list, no current item and
\* the flag down, and an operation on one wrapper leaves the items, the
\* currentItem and the isLoading of every other wrapper as they were.
C14_WrappersIsolated ==
    /\ svcLast.kind = "init" =>
          \A w \in Wrappers :
              /\ svc[w].items = <<>>
              /\ svc[w].currentItem = NoItem
              /\ svc[w].isLoading = FALSE
    /\ svcLast.kind # "init" =>
          \A v \in Wrappers \ {svcLast.w} :
              /\ svc[v].items = svcLast.before[v].items
              /\ svc[v].currentItem = svcLast.before[v].currentItem
              /\ svc[v].isLoading = svcLast.before[v].isLoading

\* A create on PostService has changed its list while
\* CommentService holds a list of its own and ReportService is busy.
C14_Witness ==
    /\ svcLast.kind = "next" /\ svcLast.w = "PostService"
    /\ svc["PostService"].items # svcLast.before["PostService"].items
    /\ svc["PostService"].currentItem = NoItem
    /\ svc["CommentService"].items # <<>>
    /\ svc["CommentService"].items # svc["PostService"].items
    /\ svc["ReportService"].isLoading
    /\ ~svc["PostService"].isLoading

\* C15: a successful reactToPost puts the response in front of items and in
\* currentItem only when the response has an id, a successful
\* removeReaction(postId) leaves in items no reaction of that post, and after
\* a failure of either items and currentItem are what they were and isLoading
\* is false.
C15_ReactionMirrorKept ==
    /\ (rLast.kind = "next" /\ rLast.op = "reactToPost") =>
          IF "id" \in DOMAIN rLast.resp
          THEN rItems = <<rLast.resp>> \o rLast.before.items /\ rCurrentItem = rLast.resp
          ELSE rItems = rLast.before.items /\ rCurrentItem = rLast.before.currentItem
    /\ (rLast.kind = "next" /\ rLast.op = "removeReaction") =>
          /\ \A i \in 1..Len(rItems) : rItems[i].postId # rLast.postId
          /\ rItems = SelectSeq(rLast.before.items,
                                LAMBDA reaction : reaction.postId # rLast.postId)
    /\ rLast.kind = "error" =>
          /\ rItems = rLast.before.items
          /\ rCurrentItem = rLast.before.currentItem
          /\ ~rIsLoading

\* The same without the flag after a failed removeReaction: what is left of
\* C15 where the code agrees with it.
C15_ExceptFlagOfRemove ==
    /\ (rLast.kind = "next" /\ rLast.op = "reactToPost") =>
          IF "id" \in DOMAIN rLast.resp
          THEN rItems = <<rLast.resp>> \o rLast.before.items /\ rCurrentItem = rLast.resp
          ELSE rItems = rLast.before.items /\ rCurrentItem = rLast.before.currentItem
    /\ (rLast.kind = "next" /\ rLast.op = "removeReaction") =>
          /\ \A i \in 1..Len(rItems) : rItems[i].postId # rLast.postId
          /\ rItems = SelectSeq(rLast.before.items,
                                LAMBDA reaction : reaction.postId # rLast.postId)
    /\ rLast.kind = "error" =>
          /\ rItems = rLast.before.items
          /\ rCurrentItem = rLast.before.currentItem
          /\ rLast.op = "reactToPost" => ~rIsLoading
          /\ rLast.op = "removeReaction" => rIsLoading = rLast.before.isLoading

\* A removeReaction has failed while a reactToPost was outstanding, and the
\* flag is still up.
C15_FlagLeftUp ==
    /\ rLast.kind = "error" /\ rLast.op = "removeReaction"
    /\ rIsLoading
    /\ \E c \in DOMAIN rCalls : rCalls[c].op = "reactToPost"

\* C16: when a request fails with status 401 the error interceptor leaves the
\* session cleared (no token and no user in storage, currentUser null,
\* isAuthenticated false) and the router at /auth/login; for any other status
\* the session is what it was; in both cases the error thrown on to the caller
\* is the error that came in.
C16_UnauthorizedClearsSession ==
    authLast.kind = "httpError" =>
        /\ authLast.thrown = authLast.error
        /\ IF authLast.error.status = 401
           THEN /\ storedToken = NoToken
                /\ storedUser = Absent
                /\ currentUser = NoUser
                /\ isAuthenticated = FALSE
                /\ url = "/auth/login"
           ELSE sessionNow = authLast.before

\* A 401 has ended a session that was authenticated.
C16_Witness ==
    /\ authLast.kind = "httpError" /\ authLast.error.status = 401
    /\ authLast.before.isAuthenticated
    /\ authLast.before.token # NoToken
    /\ authLast.before.currentUser # NoUser
    /\ storedToken = NoToken /\ ~isAuthenticated
    /\ url = "/auth/login"

\* C17: adminGuard allows exactly when a token and a user are stored, the
\* token has not expired, and the role of the current user is ADMIN; without
\* such a session it refuses and sends the router to /auth/login, with one but
\* another role it refuses and sends the router to /unauthorized.
C17_AdminGuard ==
    LET authenticated ==
            /\ storedToken # NoToken /\ storedUser # Absent
            /\ storedToken.kind = "jwt" /\ storedToken.exp > now
        admin == currentUser # NoUser /\ currentUser.role.name = "ADMIN"
    IN  /\ adminGuard.allow <=> (authenticated /\ admin)
        /\ ~authenticated => adminGuard = Refuse("/auth/login")
        /\ (authenticated /\ ~admin) => adminGuard = Refuse("/unauthorized")
        /\ (authLast.kind = "guard" /\ authLast.op = "adminGuard") =>
              /\ authLast.allow = adminGuard.allow
              /\ url = IF authLast.allow THEN "/admin" ELSE adminGuard.navigate

\* adminGuard has refused a user whose signals still say authenticated ADMIN
\* but whose token has expired.
C17_Witness ==
    /\ authLast.kind = "guard" /\ authLast.op = "adminGuard"
    /\ ~authLast.allow
    /\ isAuthenticated /\ isAdmin
    /\ storedToken.kind = "jwt" /\ storedToken.exp <= now
    /\ url = "/auth/login"

\* C18: in every state of the session exactly one of authGuard and guestGuard
\* allows: authGuard exactly when checkAuthenticationStatus() is true, else it
\* sends the router to /auth/login; guestGuard exactly when it is false, else
\* it sends the router to /dashboard.
C18_ExactlyOneGuardAllows ==
    LET authenticated ==
            /\ storedToken # NoToken /\ storedUser # Absent
            /\ storedToken.kind = "jwt" /\ storedToken.exp > now
    IN  /\ authGuard.allow # guestGuard.allow
        /\ authGuard = IF authenticated THEN Allow ELSE Refuse("/auth/login")
        /\ guestGuard = IF authenticated THEN Refuse("/dashboard") ELSE Allow
        /\ (authLast.kind = "guard" /\ authLast.op = "authGuard") =>
              url = IF authenticated THEN "/dashboard" ELSE "/auth/login"
        /\ (authLast.kind = "guard" /\ authLast.op = "guestGuard") =>
              url = IF authenticated THEN "/dashboard" ELSE "/auth/login"

\* guestGuard has allowed a visitor whose token has expired while the signal
\* still says authenticated.
C18_Witness ==
    /\ authLast.kind = "guard" /\ authLast.op = "guestGuard"
    /\ authLast.allow
    /\ isAuthenticated
    /\ storedToken.kind = "jwt" /\ storedToken.exp <= now
    /\ ~authGuard.allow

\* C19: from a logout() until a login succeeds there is no token, the status
\* check fails, currentUser is null, isAuthenticated is false and the auth
\* interceptor attaches no Authorization header.
C19_LoggedOutStaysLoggedOut ==
    loggedOut =>
        /\ getToken = NoToken
        /\ ~checkAuthenticationStatus
        /\ currentUser = NoUser
        /\ isAuthenticated = FALSE
        /\ authInterceptor.Authorization = NoToken

\* After a logout, without a login, the answer to an adminUpdateUser sent
\* before the logout has brought a whole session back.
C19_SessionBackAfterLogout ==
    /\ loggedOut
    /\ authLast.kind = "next" /\ authLast.op = "adminUpdateUser"
    /\ authLast.before.token = NoToken /\ authLast.before.currentUser = NoUser
    /\ checkAuthenticationStatus
    /\ isAuthenticated /\ currentUser # NoUser
    /\ authInterceptor.Authorization # NoToken

\* C20: loadMorePosts sends no request and changes no state when loadingMore
\* is set or hasMore is false; a successful response to it appends the page to
\* the end of posts and increases currentPage by exactly one; a failed one
\* leaves posts and currentPage as they were and resets loadingMore.
C20_LoadMoreAdvancesByOne ==
    feedLast.op = "loadMorePosts" =>
        /\ feedLast.kind \in {"ignored", "local", "call"} =>
              (feedLast.kind = "ignored" <=>
                   (feedLast.before.loadingMore \/ ~feedLast.before.hasMore))
        /\ feedLast.kind = "ignored" => (state = feedLast.before /\ ~feedLast.sent)
        /\ feedLast.kind = "next" =>
              /\ state.posts = feedLast.before.posts \o feedLast.response.content
              /\ state.currentPage = feedLast.before.currentPage + 1
        /\ feedLast.kind = "error" =>
              /\ state.posts = feedLast.before.posts
              /\ state.currentPage = feedLast.before.currentPage
              /\ ~state.loadingMore

\* The same with currentPage set to one more than the page that was asked
\* for: what the code does in every interleaving.
C20_LoadMoreSetsPageAsked ==
    feedLast.op = "loadMorePosts" =>
        /\ feedLast.kind \in {"ignored", "local", "call"} =>
              (feedLast.kind = "ignored" <=>
                   (feedLast.before.loadingMore \/ ~feedLast.before.hasMore))
        /\ feedLast.kind = "ignored" => (state = feedLast.before /\ ~feedLast.sent)
        /\ feedLast.kind = "next" =>
              /\ state.posts = feedLast.before.posts \o feedLast.response.content
              /\ state.currentPage = feedLast.page + 1
        /\ feedLast.kind = "error" =>
              /\ state.posts = feedLast.before.posts
              /\ state.currentPage = feedLast.before.currentPage
              /\ ~state.loadingMore

\* The answer to a load-more of page 1 has arrived after the filter was
\* changed: currentPage went from 0 to 2 and the page sits in a list that had
\* been emptied for the filter.
C20_StalePageApplied ==
    /\ feedLast.kind = "next" /\ feedLast.op = "loadMorePosts"
    /\ feedLast.page = 1
    /\ feedLast.before.currentPage = 0
    /\ state.currentPage = 2
    /\ statusFilter # "ALL"
    /\ feedLast.before.posts = <<>>
    /\ state.posts # <<>>

C22_OneRequestAtATime ==
    /\ chatLast.kind \in {"ignored", "sent"} =>
          (chatLast.kind = "ignored" <=>
               (TrimInput(chatLast.before.currentInput) = "" \/ chatLast.before.isTyping))
    /\ chatLast.kind = "ignored" => (chat = chatLast.before /\ ~chatLast.sent)
    /\ chatLast.kind = "sent" =>
          /\ chat.messages = chatLast.before.messages \o
                 <<createMessage(TrimInput(chatLast.before.currentInput), "USER")>>
          /\ chat.isTyping
    /\ chatLast.kind \in {"answered", "failed"} =>
          /\ Len(chat.messages) = Len(chatLast.before.messages) + 1
          /\ chat.messages[Len(chat.messages)].messageType = "CHATBOT"
          /\ chatLast.kind = "failed" => chat.messages[Len(chat.messages)] = ErrorNotice
          /\ ~chat.isTyping
    /\ chat.isTyping <=> Sending # {}
    /\ Cardinality(Sending) <= 1

\* The same as long as the conversation has not been reset.
C22_UntilReset ==
    ~chatLast.reset => C22_OneRequestAtATime

\* After a reset with a request outstanding a second message was sent: two
\* requests are outstanding.
C22_TwoRequests ==
    /\ chatLast.kind = "sent"
    /\ chatLast.reset
    /\ Cardinality(Sending) = 2

C24_NoDuplicateIds ==
    Distinct(mirrorItems)

\* The server keeps its side: identifiers are apart in the store, in every
\* page answered and among the items created.
C24_ServerKeepsIdsApart ==
    /\ Distinct(store)
    /\ \A c \in DOMAIN sCalls : Distinct(sCalls[c].content)
    /\ \A c, d \in DOMAIN sCalls :
          (sCalls[c].item # NoItem /\ sCalls[c].item = sCalls[d].item) => c = d

\* The answer to create was prepended to a list that held the created item
\* already.
C24_CreatedItemTwice ==
    /\ sLast.kind = "createNext"
    /\ Len(mirrorItems) >= 2
    /\ \E j \in 2..Len(mirrorItems) : mirrorItems[j] = mirrorItems[1]

\* C25: isLoading is false whenever no request is outstanding, also after the
\* only call in flight was cancelled by unsubscription before its answer:
\* with no call left, subscribed or not, the flag is down.
C25_FlagDownWhenIdle ==
    DOMAIN calls = {} => ~isLoading

\* A call was unsubscribed before its answer: no call is left and the flag
\* is up.
C25_FlagStuck ==
    /\ last.kind = "unsubscribe"
    /\ cancelled
    /\ DOMAIN calls = {}
    /\ isLoading

\* C26: in every state of the AuthService isAuthenticated is true exactly
\* when currentUser is not null and both the token and the user are in the
\* local storage, also when the answer to an update of the user sent before
\* a logout arrives after it.
C26_FlagMatchesSession ==
    isAuthenticated <=>
        (currentUser # NoUser /\ storedToken # NoToken /\ storedUser # Absent)

\* One half holds in every state: a raised flag comes with a user in the
\* signal and with token and user in the storage.
C26_FlagImpliesSession ==
    isAuthenticated =>
        (currentUser # NoUser /\ storedToken # NoToken /\ storedUser # Absent)

\* The page was loaded with an expired token in the storage, which leaves the
\* flag down and the storage as it is; the answer to an update then put the
\* user in the signal: user, token and stored user are there, the flag is
\* down.
C26_SessionWithoutFlag ==
    /\ authLast.kind = "next"
    /\ authLast.op \in {"updateUser", "adminUpdateUser"}
    /\ ~isAuthenticated
    /\ currentUser # NoUser
    /\ storedUser # Absent
    /\ storedToken.kind = "jwt"
    /\ ~isTokenValid(storedToken)

\* C27: after a successful unfollowUser(userId) the mirror of the
\* FollowService holds no relationship whose followed user is userId, and the
\* relationships towards other users are in the mirror as before.
C27_UnfollowRemovesFollowed ==
    fLast.kind = "unfollowed" =>
        /\ Towards(follow.items, fLast.userId) = <<>>
        /\ NotTowards(follow.items, fLast.userId) = NotTowards(fLast.before, fLast.userId)

\* What the mirror is after a successful unfollowUser(userId): the items
\* before without the relationship whose own identifier is userId.
C27_UnfollowRemovesById ==
    fLast.kind = "unfollowed" =>
        follow.items = Without(fLast.before, fLast.userId)

\* After a successful unfollowUser(userId) the relationship towards userId is
\* still mirrored and the one towards another user is gone.
C27_WrongFollowRemoved ==
    /\ fLast.kind = "unfollowed"
    /\ Towards(follow.items, fLast.userId) # <<>>
    /\ NotTowards(follow.items, fLast.userId) # NotTowards(fLast.before, fLast.userId)

====
